---- MODULE Spec2Model ----
(***************************************************************************)
(* Model of the extent probe, experiments/vcpkg/main.cpp.                  *)
(*                                                                         *)
(* One run of main() is a straight line of library calls with one guarded  *)
(* failure (the dataset does not open).  The state is main's locals, the   *)
(* resources it holds, the two output sinks (stdout and the spdlog sink)   *)
(* and the program counter, named after the source line about to execute. *)
(* The environment (argument vector, the file at the path) is chosen in    *)
(* Init and never changes: the dataset is unmodified between runs.         *)
(***************************************************************************)
EXTENDS Integers, Sequences, FiniteSets, TLC

\* ---- bounds ----
MaxArgc == 2
MaxCoord == 1
MaxLayers == 1
NumRuns == 2

\* ---- values ----
NULL == "NULL"
NoLayer == [extent |-> [MinX |-> -2, MinY |-> -2, MaxX |-> -2, MaxY |-> -2], srs |-> "NULL"]
NoFile == [exists |-> FALSE, layers |-> 0, layer0 |-> NoLayer]
NoExtent == [MinX |-> -2, MinY |-> -2, MaxX |-> -2, MaxY |-> -2]
Garbage == [MinX |-> -1, MinY |-> -1, MaxX |-> -1, MaxY |-> -1]
ZeroEnvelope == [MinX |-> 0, MinY |-> 0, MaxX |-> 0, MaxY |-> 0]
NoExit == -1

Coords == 0..MaxCoord

\* OGREnvelope: MinX, MinY, MaxX, MaxY.
Envelopes ==
  {e \in [MinX : Coords, MinY : Coords, MaxX : Coords, MaxY : Coords] :
      e.MinX <= e.MaxX /\ e.MinY <= e.MaxY}

SRSs == {"EPSG:4326", "EPSG:28992"}

\* A layer as the probe sees it: what GetExtent yields (NoExtent: the query
\* fails with OGRERR_FAILURE) and what GetSpatialRef yields (NULL: none).
Layers == [extent : Envelopes \cup {NoExtent}, srs : SRSs \cup {NULL}]

\* What is at the path: nothing openable, or a dataset with 0..MaxLayers
\* layers.  The probe only ever asks for layer 0, so a dataset is its number
\* of layers and its first layer.
Files ==
  {NoFile} \cup
  {[exists |-> TRUE, layers |-> 0, layer0 |-> NoLayer]} \cup
  {[exists |-> TRUE, layers |-> n, layer0 |-> l] :
      n \in 1..MaxLayers, l \in Layers}

\* The values an uninitialised OGREnvelope* can hold: null, an address that is
\* not mapped, or an address of writable memory that is not an envelope of
\* the run.
UninitPointers == {"null", "unmapped", "stray"}
Allocated == "allocated"

Terminal == {"exited", "crashed"}

VARIABLES argc, file, run, prev,
          pc, path_gdal, registered, poDS, dsState, poLayer, poEnvelope,
          envMem, extentErr, poSRS, pszSRS_WKT, bufState, corrupt,
          out, log, exitCode, events

vars == <<argc, file, run, prev,
          pc, path_gdal, registered, poDS, dsState, poLayer, poEnvelope,
          envMem, extentErr, poSRS, pszSRS_WKT, bufState, corrupt,
          out, log, exitCode, events>>

env == <<argc, file, run, prev>>

\* The layer behind the OGRLayer* that GetLayer(0) returned.
Layer0 == file.layer0

\* argv[i]: argv[0] is the program name, argv[argc] is the null pointer.
Argv(i) == IF i = 0 THEN "probe" ELSE IF i < argc THEN "data.gpkg" ELSE NULL

\* OGRSpatialReference::exportToWkt: the well-known text of a reference.
Wkt(srs) ==
  IF srs = "EPSG:4326" THEN "GEOGCS[\"WGS 84\"]"
  ELSE "PROJCS[\"Amersfoort / RD New\"]"

\* spdlog::info("OGR bbox: {} {} {} {}", MinX, MinY, MaxX, MaxY)
BboxLine(e) ==
  [fmt |-> "OGR bbox: {} {} {} {}", args |-> <<e.MinX, e.MinY, e.MaxX, e.MaxY>>]

\* spdlog::info("OGR spatial reference: {}", pszSRS_WKT)
SrsLine(w) == [fmt |-> "OGR spatial reference: {}", args |-> <<w>>]

\* History of the calls a run completed, with the resource states they saw.
Ev(op) == [op |-> op, ds |-> dsState, buf |-> bufState]
Has(op) == \E i \in DOMAIN events : events[i].op = op
Count(op) == Cardinality({i \in DOMAIN events : events[i].op = op})
Before(a, b) ==
  \A i \in DOMAIN events :
     events[i].op = b => \E j \in 1..(i - 1) : events[j].op = a

\* What an observer of a finished run sees.
Output == [log |-> log, out |-> out, status |-> pc, code |-> exitCode]
NoOutput == [log |-> <<>>, out |-> <<>>, status |-> "none", code |-> NoExit]

\* The state of a process at entry to main.
Start ==
  /\ pc = "l16"
  /\ path_gdal = "uninit"
  /\ registered = 0
  /\ poDS = "uninit"
  /\ dsState = "none"
  /\ poLayer = "uninit"
  /\ poEnvelope = "uninit"
  /\ envMem = Garbage
  /\ extentErr = "unset"
  /\ poSRS = "unset"
  /\ pszSRS_WKT = "uninit"
  /\ bufState = "none"
  /\ corrupt = FALSE
  /\ out = <<>>
  /\ log = <<>>
  /\ exitCode = NoExit
  /\ events = <<>>

Init ==
  /\ argc \in 1..MaxArgc
  /\ file \in Files
  /\ run = 1
  /\ prev = NoOutput
  /\ Start

\* A segmentation fault ends the run where it stands.
Crash ==
  /\ pc' = "crashed"
  /\ events' = Append(events, Ev("SIGSEGV"))

\* line 16: auto path_gdal = argv[1];
ReadArgv ==
  /\ pc = "l16"
  /\ path_gdal' = Argv(1)
  /\ events' = Append(events, Ev("argv[1]"))
  /\ pc' = "l19"
  /\ UNCHANGED <<env, registered, poDS, dsState, poLayer, poEnvelope, envMem,
                 extentErr, poSRS, pszSRS_WKT, bufState, corrupt, out, log,
                 exitCode>>

GDALAllRegister_Skipped ==
  /\ pc = "l19"
  /\ pc' = "l22"
  /\ UNCHANGED <<env, path_gdal, registered, poDS, dsState, poLayer,
                 poEnvelope, envMem, extentErr, poSRS, pszSRS_WKT, bufState,
                 corrupt, out, log, exitCode, events>>

\* line 19: GDALAllRegister();
GDALAllRegister ==
  /\ pc = "l19"
  /\ registered' = registered + 1
  /\ events' = Append(events, Ev("GDALAllRegister"))
  /\ pc' = "l22"
  /\ UNCHANGED <<env, path_gdal, poDS, dsState, poLayer, poEnvelope, envMem,
                 extentErr, poSRS, pszSRS_WKT, bufState, corrupt, out, log,
                 exitCode>>

\* line 22: poDS = GDALOpenEx(path_gdal, GDAL_OF_VECTOR, ...): a null handle
\* for a null path or a path with nothing openable behind it.
GDALOpenEx ==
  /\ pc = "l22"
  /\ poDS' = IF path_gdal = NULL \/ ~file.exists THEN NULL ELSE "ds"
  /\ dsState' = IF poDS' = NULL THEN dsState ELSE "open"
  /\ events' = Append(events, Ev("GDALOpenEx"))
  /\ pc' = "l23"
  /\ UNCHANGED <<env, path_gdal, registered, poLayer, poEnvelope, envMem,
                 extentErr, poSRS, pszSRS_WKT, bufState, corrupt, out, log,
                 exitCode>>

CheckOpen_NoExit ==
  /\ pc = "l23"
  /\ IF poDS = NULL
       THEN /\ out' = Append(out, "Open failed.\n")
            /\ events' = Append(events, Ev("printf"))
       ELSE UNCHANGED <<out, events>>
  /\ pc' = "l29"
  /\ UNCHANGED <<env, path_gdal, registered, poDS, dsState, poLayer,
                 poEnvelope, envMem, extentErr, poSRS, pszSRS_WKT, bufState,
                 corrupt, log, exitCode>>

\* lines 23-27: if (poDS == NULL) { printf("Open failed.\n"); exit(1); }
CheckOpen ==
  /\ pc = "l23"
  /\ IF poDS = NULL
       THEN /\ out' = Append(out, "Open failed.\n")
            /\ exitCode' = 1
            /\ events' = events \o <<Ev("printf"), Ev("exit")>>
            /\ pc' = "exited"
       ELSE /\ pc' = "l29"
            /\ UNCHANGED <<out, exitCode, events>>
  /\ UNCHANGED <<env, path_gdal, registered, poDS, dsState, poLayer,
                 poEnvelope, envMem, extentErr, poSRS, pszSRS_WKT, bufState,
                 corrupt, log>>

GetLayer_Checked ==
  /\ pc = "l29"
  /\ IF poDS = NULL
       THEN /\ Crash
            /\ UNCHANGED <<poLayer, out, exitCode>>
       ELSE IF file.layers >= 1
         THEN /\ poLayer' = "layer0"
              /\ events' = Append(events, Ev("GetLayer"))
              /\ pc' = "l30"
              /\ UNCHANGED <<out, exitCode>>
         ELSE /\ poLayer' = NULL
              /\ out' = Append(out, "No layer.\n")
              /\ exitCode' = 2
              /\ events' = events \o <<Ev("GetLayer"), Ev("printf"), Ev("exit")>>
              /\ pc' = "exited"
  /\ UNCHANGED <<env, path_gdal, registered, poDS, dsState, poEnvelope,
                 envMem, extentErr, poSRS, pszSRS_WKT, bufState, corrupt, log>>

\* lines 28-29: poLayer = poDS->GetLayer(0): the first layer, or null when
\* the dataset has none.  The result is not checked.
GetLayer ==
  /\ pc = "l29"
  /\ IF poDS = NULL
       THEN /\ Crash
            /\ UNCHANGED poLayer
       ELSE /\ poLayer' = IF file.layers >= 1 THEN "layer0" ELSE NULL
            /\ events' = Append(events, Ev("GetLayer"))
            /\ pc' = "l30"
  /\ UNCHANGED <<env, path_gdal, registered, poDS, dsState, poEnvelope,
                 envMem, extentErr, poSRS, pszSRS_WKT, bufState, corrupt, out,
                 log, exitCode>>

\* line 30: OGREnvelope *poEnvelope;  -- declared, never initialised.
DeclEnvelope ==
  /\ pc = "l30"
  /\ poEnvelope' \in UninitPointers
  /\ pc' = "l31"
  /\ UNCHANGED <<env, path_gdal, registered, poDS, dsState, poLayer, envMem,
                 extentErr, poSRS, pszSRS_WKT, bufState, corrupt, out, log,
                 exitCode, events>>

\* line 31: poLayer->GetExtent(poEnvelope): a call through poLayer, then the
\* library's write through poEnvelope.  The OGRErr it returns is dropped.
GetExtent ==
  /\ pc = "l31"
  /\ IF poLayer = NULL
       THEN /\ Crash
            /\ UNCHANGED <<envMem, extentErr, corrupt>>
       ELSE LET ext == Layer0.extent IN
            IF poEnvelope \in {"null", "unmapped"}
              THEN \/ /\ Crash
                      /\ UNCHANGED <<envMem, extentErr, corrupt>>
                   \/ /\ ext = NoExtent
                      /\ extentErr' = "OGRERR_FAILURE"
                      /\ events' = Append(events, Ev("GetExtent"))
                      /\ pc' = "l32"
                      /\ UNCHANGED <<envMem, corrupt>>
              ELSE /\ IF ext = NoExtent
                        THEN /\ extentErr' = "OGRERR_FAILURE"
                             /\ envMem' \in {ZeroEnvelope, Garbage}
                        ELSE /\ extentErr' = "OGRERR_NONE"
                             /\ envMem' = ext
                   /\ corrupt' = TRUE
                   /\ events' = Append(events, Ev("GetExtent"))
                   /\ pc' = "l32"
  /\ UNCHANGED <<env, path_gdal, registered, poDS, dsState, poLayer,
                 poEnvelope, poSRS, pszSRS_WKT, bufState, out, log, exitCode>>

\* line 32: spdlog::info("OGR bbox: ...", poEnvelope->MinX, ...): reads the
\* four fields through poEnvelope, then logs them.
LogBbox ==
  /\ pc = "l32"
  /\ IF poEnvelope \in {"null", "unmapped"}
       THEN /\ Crash
            /\ UNCHANGED log
       ELSE \E e \in {envMem, Garbage} :
              /\ log' = Append(log, BboxLine(e))
              /\ events' = events \o <<Ev("read_envelope"), Ev("log_bbox")>>
              /\ pc' = "l34"
  /\ UNCHANGED <<env, path_gdal, registered, poDS, dsState, poLayer,
                 poEnvelope, envMem, extentErr, poSRS, pszSRS_WKT, bufState,
                 corrupt, out, exitCode>>

\* lines 33-34: char *pszSRS_WKT = NULL;
\*              poLayer->GetSpatialRef()->exportToWkt(&pszSRS_WKT);
\* The reference GetSpatialRef returns is not checked.
ExportToWkt ==
  /\ pc = "l34"
  /\ poSRS' = Layer0.srs
  /\ IF poSRS' = NULL
       THEN /\ pszSRS_WKT' = NULL
            /\ events' = events \o <<Ev("GetSpatialRef"), Ev("SIGSEGV")>>
            /\ pc' = "crashed"
            /\ UNCHANGED bufState
       ELSE /\ pszSRS_WKT' = Wkt(poSRS')
            /\ bufState' = "filled"
            /\ events' = events \o <<Ev("GetSpatialRef"), Ev("exportToWkt")>>
            /\ pc' = "l35"
  /\ UNCHANGED <<env, path_gdal, registered, poDS, dsState, poLayer,
                 poEnvelope, envMem, extentErr, corrupt, out, log, exitCode>>

\* line 35: spdlog::info("OGR spatial reference: {}", pszSRS_WKT);
LogSrs ==
  /\ pc = "l35"
  /\ log' = Append(log, SrsLine(pszSRS_WKT))
  /\ events' = events \o <<Ev("read_wkt"), Ev("log_srs")>>
  /\ pc' = "l36"
  /\ UNCHANGED <<env, path_gdal, registered, poDS, dsState, poLayer,
                 poEnvelope, envMem, extentErr, poSRS, pszSRS_WKT, bufState,
                 corrupt, out, exitCode>>

CPLFree_Skipped ==
  /\ pc = "l36"
  /\ pc' = "l37"
  /\ UNCHANGED <<env, path_gdal, registered, poDS, dsState, poLayer,
                 poEnvelope, envMem, extentErr, poSRS, pszSRS_WKT, bufState,
                 corrupt, out, log, exitCode, events>>

\* line 36: CPLFree(pszSRS_WKT);
CPLFree ==
  /\ pc = "l36"
  /\ bufState' = "freed"
  /\ events' = Append(events, Ev("CPLFree"))
  /\ pc' = "l37"
  /\ UNCHANGED <<env, path_gdal, registered, poDS, dsState, poLayer,
                 poEnvelope, envMem, extentErr, poSRS, pszSRS_WKT, corrupt,
                 out, log, exitCode>>

\* line 37: GDALClose(poDS);
GDALClose ==
  /\ pc = "l37"
  /\ dsState' = "closed"
  /\ events' = Append(events, Ev("GDALClose"))
  /\ pc' = "l39"
  /\ UNCHANGED <<env, path_gdal, registered, poDS, poLayer, poEnvelope,
                 envMem, extentErr, poSRS, pszSRS_WKT, bufState, corrupt, out,
                 log, exitCode>>

\* line 39: return 0;
Return0 ==
  /\ pc = "l39"
  /\ exitCode' = 0
  /\ events' = Append(events, Ev("return"))
  /\ pc' = "exited"
  /\ UNCHANGED <<env, path_gdal, registered, poDS, dsState, poLayer,
                 poEnvelope, envMem, extentErr, poSRS, pszSRS_WKT, bufState,
                 corrupt, out, log>>

\* lines 31-39: once GetExtent has written through a stray pointer, memory
\* the run depends on may be overwritten and any later step may fault.
CorruptionCrash ==
  /\ corrupt
  /\ pc \in {"l32", "l34", "l35", "l36", "l37", "l39"}
  /\ Crash
  /\ UNCHANGED <<env, path_gdal, registered, poDS, dsState, poLayer,
                 poEnvelope, envMem, extentErr, poSRS, pszSRS_WKT, bufState,
                 corrupt, out, log, exitCode>>

\* The probe is run again with the same arguments on the same dataset: a
\* new process, entering main with fresh locals.
Rerun ==
  /\ pc \in Terminal
  /\ run < NumRuns
  /\ run' = run + 1
  /\ prev' = Output
  /\ pc' = "l16"
  /\ path_gdal' = "uninit"
  /\ registered' = 0
  /\ poDS' = "uninit"
  /\ dsState' = "none"
  /\ poLayer' = "uninit"
  /\ poEnvelope' = "uninit"
  /\ envMem' = Garbage
  /\ extentErr' = "unset"
  /\ poSRS' = "unset"
  /\ pszSRS_WKT' = "uninit"
  /\ bufState' = "none"
  /\ corrupt' = FALSE
  /\ out' = <<>>
  /\ log' = <<>>
  /\ exitCode' = NoExit
  /\ events' = <<>>
  /\ UNCHANGED <<argc, file>>

Next ==
  \/ ReadArgv
  \/ GDALAllRegister
  \/ GDALOpenEx
  \/ CheckOpen
  \/ GetLayer
  \/ DeclEnvelope
  \/ GetExtent
  \/ LogBbox
  \/ ExportToWkt
  \/ LogSrs
  \/ CPLFree
  \/ GDALClose
  \/ Return0
  \/ CorruptionCrash
  \/ Rerun

Spec == Init /\ [][Next]_vars

TypeOK ==
  /\ argc \in 1..MaxArgc
  /\ file \in Files
  /\ run \in 1..NumRuns
  /\ pc \in {"l16", "l19", "l22", "l23", "l29", "l30", "l31", "l32", "l34",
             "l35", "l36", "l37", "l39"} \cup Terminal
  /\ dsState \in {"none", "open", "closed"}
  /\ bufState \in {"none", "filled", "freed"}
  /\ exitCode \in {NoExit, 0, 1}
  /\ Len(log) <= 2

\* ---- vocabulary of the claims ----

\* The open step has run and returned a null handle.
OpenFailed == Has("GDALOpenEx") /\ poDS = NULL

\* The run ended the way a handled error ends: a message and a deliberate,
\* non-zero exit code.
Reported == pc = "exited" /\ exitCode > 0 /\ out # <<>>

\* A dataset that opens, has a layer 0, a readable extent and a reference.
ValidDataset ==
  /\ argc >= 2
  /\ file.exists
  /\ file.layers >= 1
  /\ Layer0.extent # NoExtent
  /\ Layer0.srs # NULL

\* The steps that read the layer, its extent or its spatial reference.
DerivedReads ==
  {"GetExtent", "read_envelope", "log_bbox", "GetSpatialRef", "exportToWkt",
   "read_wkt", "log_srs"}

\* The part of the step order that does not depend on how the two queries
\* and the two log lines interleave.
OrderOfRun ==
  /\ Count("GDALAllRegister") <= 1
  /\ registered <= 1
  /\ Has("GDALOpenEx") => registered = 1
  /\ Before("GDALAllRegister", "GDALOpenEx")
  /\ Before("GDALOpenEx", "GetLayer")
  /\ Before("GetExtent", "log_bbox")
  /\ Before("GetExtent", "log_srs")
  /\ Before("exportToWkt", "log_srs")
  /\ Before("log_bbox", "CPLFree")
  /\ Before("log_srs", "CPLFree")
  /\ Before("log_bbox", "GDALClose")
  /\ Before("log_srs", "GDALClose")

\* ---- C1 ----
\* C1: when the open step returns a null handle the run ends at once with
\* exit code 1, without a crash, and without any layer access, extent query,
\* spatial-reference query or log line; and whenever layer 0 is about to be
\* or has been accessed, the dataset handle is non-null and open.
C1_OpenFailureExits ==
  /\ (OpenFailed /\ pc # "l23") =>
        /\ pc = "exited"
        /\ exitCode = 1
        /\ log = <<>>
        /\ ~Has("GetLayer")
        /\ ~Has("GetExtent")
        /\ ~Has("GetSpatialRef")
        /\ ~Has("SIGSEGV")
  /\ pc = "l29" => (poDS = "ds" /\ dsState = "open")
  /\ Has("GetLayer") => poDS = "ds"
  /\ \A i \in DOMAIN events :
        events[i].op = "GetLayer" => events[i].ds = "open"

\* A run on a path with nothing behind it has ended with exit code 1.
C1_Witness ==
  /\ argc >= 2
  /\ ~file.exists
  /\ OpenFailed
  /\ pc = "exited"
  /\ exitCode = 1

\* ---- C2 ----
\* C2: a run on a valid dataset ends with exit code 0 having logged exactly
\* two lines: the four extent values in the order MinX MinY MaxX MaxY, then
\* the well-known text of the layer's spatial reference.
C2_ValidRunLogsBoth ==
  (ValidDataset /\ pc \in Terminal) =>
     /\ pc = "exited"
     /\ exitCode = 0
     /\ log = <<BboxLine(Layer0.extent), SrsLine(Wkt(Layer0.srs))>>

\* ---- C3 ----
\* C3: a run on a dataset that opens but has no layer never crashes and ends
\* in a reported error.
C3_ZeroLayersReported ==
  (poDS = "ds" /\ file.layers = 0) =>
     /\ pc # "crashed"
     /\ pc \in Terminal => Reported

\* ---- C4 ----
\* C4: a second run with the same arguments on the same unmodified dataset
\* ends with the same log lines, the same standard output and the same exit
\* as the first.
C4_SameOutputTwice == (run > 1 /\ pc \in Terminal) => Output = prev

\* ---- C5 ----
\* C5: in every terminal state of a run, a dataset handle that was opened
\* has been closed and a string buffer that was allocated has been freed.
C5_ReleasedAtEnd ==
  pc \in Terminal => (dsState # "open" /\ bufState # "filled")

\* ---- C6 ----
\* C6 (as stated): registration happens exactly once and before the open,
\* the open before the layer access, both the extent query and the export of
\* the spatial reference before either log line, and the releases after both
\* log lines.
C6_BothQueriesBeforeAnyLog ==
  /\ OrderOfRun
  /\ Before("exportToWkt", "log_bbox")

\* C6 (amended): registration happens exactly once and before the open, the
\* open before the layer access, the extent query before the extent line,
\* the extent line before the export of the spatial reference, the export
\* before the spatial-reference line, and the releases after both log lines.
C6_EachQueryBeforeItsLog ==
  /\ OrderOfRun
  /\ Before("log_bbox", "exportToWkt")

\* A run went through every step and returned 0.
C6_Witness ==
  /\ pc = "exited"
  /\ exitCode = 0
  /\ Count("GDALAllRegister") = 1
  /\ Has("log_bbox")
  /\ Has("log_srs")
  /\ Has("GDALClose")

\* ---- C7 ----
\* C7: the only run that ends in a reported error is the one that exits with
\* code 1 after a failed open.  A missing layer 0 or a null spatial reference
\* is never reported and ends in a crash; a failed extent query is never
\* reported either, and the run goes on to read the envelope.
C7_OnlyOpenFailureReported ==
  /\ Reported => (exitCode = 1 /\ OpenFailed)
  /\ (poLayer = NULL \/ poSRS = NULL \/ extentErr = "OGRERR_FAILURE")
        => ~Reported
  /\ poLayer = NULL => pc \in {"l30", "l31", "crashed"}
  /\ poSRS = NULL => pc = "crashed"
  /\ extentErr = "OGRERR_FAILURE"
        => (pc \in {"l32", "crashed"} \/ Has("read_envelope"))

\* A run on a dataset without layers has crashed with the dataset open.
C7_Witness ==
  /\ poDS = "ds"
  /\ poLayer = NULL
  /\ pc = "crashed"
  /\ out = <<>>

\* ---- C8 ----
\* C8: every step that reads the layer, its extent or its spatial reference
\* runs while the dataset handle is open; the string buffer is read only
\* while it is filled, is freed only when filled and at most once, and is
\* freed before the dataset is closed.
C8_DerivedOnlyWhileOpen ==
  /\ \A i \in DOMAIN events :
        /\ events[i].op \in DerivedReads => events[i].ds = "open"
        /\ events[i].op = "read_wkt" => events[i].buf = "filled"
        /\ events[i].op = "CPLFree" => events[i].buf = "filled"
        /\ events[i].op = "GDALClose" => events[i].buf = "freed"
  /\ Count("CPLFree") <= 1
  /\ Before("CPLFree", "GDALClose")

\* The buffer was read, then freed, then the dataset was closed.
C8_Witness ==
  /\ Has("read_wkt")
  /\ bufState = "freed"
  /\ dsState = "closed"

\* ---- C9 ----
\* C9: when GetExtent is called and when the four fields are read, the
\* envelope pointer refers to an envelope object the run allocated.
C9_EnvelopeAllocated == pc \in {"l31", "l32"} => poEnvelope = Allocated

\* ---- C10 ----
\* C10: argv[1] is read only in runs with at least two arguments, and the
\* open step is never handed a null path.
C10_PathOnlyWhenSupplied ==
  /\ Has("argv[1]") => argc >= 2
  /\ Has("GDALOpenEx") => path_gdal # NULL

====
